---- MODULE Spec2Model ----
(***************************************************************************)
(* Model of exp/synthetic/OracleInpainter.py: the oracle inpainter for the *)
(* mixture-of-blocks data, the mask generators and the driver script.      *)
(*                                                                         *)
(* Two specifications share the module.                                    *)
(*   SpecDriver   the control flow of the __main__ script: argument        *)
(*                record, filter selection, inpainter selection, the       *)
(*                batch loop, the plot files, the final 'done'.  Tensor    *)
(*                values do not steer the script, so a batch is known      *)
(*                there by its index.                                      *)
(*   SpecInpaint  the tensor computations on one batch: mask generation,   *)
(*                infer_label_probs, generate_background and               *)
(*                impute_missing_imgs, on concrete pixel grids.            *)
(***************************************************************************)
EXTENDS Integers, Sequences, FiniteSets, TLC

VARIABLES
    args,        \* driver: the parsed argument record (parse_args)
    numBatches,  \* driver: number of batches the loader yields
    pc,          \* driver: position in the script
    filt,        \* driver: filter_class chosen at lines 132-135
    inpainter,   \* driver: the selected inpainter object
    i,           \* driver: loop index of enumerate(loader)
    events,      \* driver: the per-batch steps executed, in order
    stdout,      \* driver: what has been printed
    files,       \* driver: image files written by save_image
    failure,     \* driver: message of the assertion that ended the run
    ipc,         \* inpaint: position in the batch computation
    self_filt,   \* inpaint: OracleInpainter.filt
    x,           \* inpaint: image batch
    y,           \* inpaint: label batch
    mb,          \* inpaint: mask batch
    noise,       \* inpaint: the draw of torch.randn used by infer_label_probs
    label_probs, \* inpaint: result of infer_label_probs
    label_samps, \* inpaint: labels drawn by torch.multinomial
    betas,       \* inpaint: intensity estimates
    backgnd,     \* inpaint: result of generate_background
    z            \* inpaint: result of impute_missing_imgs

driverVars == <<args, numBatches, pc, filt, inpainter, i, events, stdout, files, failure>>
inpaintVars == <<ipc, self_filt, x, y, mb, noise, label_probs, label_samps, betas, backgnd, z>>
vars == <<driverVars, inpaintVars>>

None == "None"

(***************************************************************************)
(* Strings whose letter case matters are sequences of characters, so that  *)
(* str.lower() is a computation.                                           *)
(***************************************************************************)
UpperAlpha == <<"A","B","C","D","E","F","G","H","I","J","K","L","M",
                "N","O","P","Q","R","S","T","U","V","W","X","Y","Z">>
LowerAlpha == <<"a","b","c","d","e","f","g","h","i","j","k","l","m",
                "n","o","p","q","r","s","t","u","v","w","x","y","z">>

lowerChar(c) ==
    IF \E k \in 1..Len(UpperAlpha) : UpperAlpha[k] = c
    THEN LowerAlpha[CHOOSE k \in 1..Len(UpperAlpha) : UpperAlpha[k] = c]
    ELSE c

lower(s) == [k \in 1..Len(s) |-> lowerChar(s[k])]

s_median  == <<"m","e","d","i","a","n">>
s_avg     == <<"a","v","g">>
s_average == <<"a","v","e","r","a","g","e">>

\* The --mode values explored: the three accepted spellings, other letter
\* cases of them, and strings that are not a mode.
ModeInputs ==
    { s_median, s_avg, s_average,
      <<"M","e","d","i","a","n">>, <<"M","E","D","I","A","N">>,
      <<"A","V","G">>, <<"A","v","e","r","a","g","e">>,
      <<"u","n","s","u","p","p","o","r","t","e","d">>, <<"m","e","a","n">>, <<>> }

MedianPool2d == "MedianPool2d"
AvgPool2d    == "AvgPool2d"

(***************************************************************************)
(* OracleInpainter.__init__                                                *)
(***************************************************************************)
\* line 17: the asserted precondition
ModeAccepted(mode) == lower(mode) \in {s_median, s_avg, s_average}

\* the same choice without the lower()
OracleFilterClassCaseSensitive(mode) ==
    IF mode = s_median THEN MedianPool2d ELSE AvgPool2d

\* line 18: filter_class
OracleFilterClass(mode) ==
    IF lower(mode) = s_median THEN MedianPool2d ELSE AvgPool2d

\* lines 15-21: the object built, or the failed assertion
OracleInpainterInit(mode) ==
    IF ModeAccepted(mode)
    THEN [ok |-> TRUE,  cls |-> "OracleInpainter", filt |-> OracleFilterClass(mode)]
    ELSE [ok |-> FALSE, cls |-> None, filt |-> None]

(***************************************************************************)
(* The driver script                                                       *)
(***************************************************************************)
MaxBatches == 2

GenModelInputs ==
    { "OracleInpainter", "MeanInpainter", "LocalMeanInpainter",
      "MeanInpatinter", "LocalMeanInpatinter", "BlurryInpainter" }

MaskNameInputs == { "halfblock", "random", "block" }

\* lines 132-135: the filter the driver uses for its accuracy evaluation
DriverFilterClass(mode) ==
    IF mode = s_median THEN MedianPool2d ELSE AvgPool2d

\* lines 141-148: the inpainter class the selector names; None: assert False
GenModelClass(name) ==
    CASE name = "OracleInpainter"     -> "OracleInpainter"
      [] name = "LocalMeanInpatinter" -> "LocalMeanInpainter"
      [] name = "MeanInpatinter"      -> "MeanInpainter"
      [] OTHER                        -> None

\* lines 154-159: the mask generator the selector names; None: assert False
MaskGenerator(name) ==
    CASE name = "random"    -> "random_mask_batch"
      [] name = "halfblock" -> "random_half_block_mask_batch"
      [] OTHER              -> None

\* lines 161-169: the steps of one batch after its mask, in program order
BatchSteps(cls, k) ==
    (IF cls = "OracleInpainter" THEN << <<"infer_label_probs", k>> >> ELSE << >>)
    \o << <<"impute_missing_imgs", k>>, <<"acc", k>> >>

\* lines 171-184: the files save_image writes for batch k
PlotFiles(cls, k) ==
    { <<"masks", k>>, <<"masked", k>>, <<"x", k>>, <<"impute", k>> }
    \cup (IF cls = "OracleInpainter" THEN { <<"probs", k>> } ELSE {})

InpaintIdle ==
    /\ ipc = "idle" /\ self_filt = None /\ x = << >> /\ y = << >> /\ mb = << >>
    /\ noise = << >> /\ label_probs = << >> /\ label_samps = << >>
    /\ betas = << >> /\ backgnd = << >> /\ z = << >>

\* line 129-131: arguments parsed, loader built
DriverInit ==
    /\ args \in [ mode : ModeInputs, gen_model_name : GenModelInputs,
                  mask_name : MaskNameInputs, plot : BOOLEAN ]
    /\ numBatches \in 0..MaxBatches
    /\ pc = "build_filter"
    /\ filt = None
    /\ inpainter = [cls |-> None, filt |-> None]
    /\ i = 0
    /\ events = << >>
    /\ stdout = << >>
    /\ files = {}
    /\ failure = None
    /\ InpaintIdle

\* lines 132-139
BuildFilter ==
    /\ pc = "build_filter"
    /\ filt' = DriverFilterClass(args.mode)
    /\ pc' = "select_inpainter"
    /\ UNCHANGED <<args, numBatches, inpainter, i, events, stdout, files, failure>>
    /\ UNCHANGED inpaintVars

\* lines 141-148
SelectInpainter ==
    /\ pc = "select_inpainter"
    /\ LET cls == GenModelClass(args.gen_model_name)
           obj == OracleInpainterInit(args.mode)
       IN  CASE cls = None ->
                  /\ pc' = "failed"
                  /\ failure' = "unsupported gen model name"
                  /\ UNCHANGED inpainter
             [] cls = "OracleInpainter" /\ ~obj.ok ->
                  /\ pc' = "failed"
                  /\ failure' = "unsupported mode"
                  /\ UNCHANGED inpainter
             [] cls = "OracleInpainter" /\ obj.ok ->
                  /\ inpainter' = [cls |-> obj.cls, filt |-> obj.filt]
                  /\ pc' = "loop"
                  /\ UNCHANGED failure
             [] OTHER ->
                  /\ inpainter' = [cls |-> cls, filt |-> None]
                  /\ pc' = "loop"
                  /\ UNCHANGED failure
    /\ UNCHANGED <<args, numBatches, filt, i, events, stdout, files>>
    /\ UNCHANGED inpaintVars

\* lines 151-185: one iteration of the loop
ProcessBatch ==
    /\ pc = "loop"
    /\ i < numBatches
    /\ IF MaskGenerator(args.mask_name) = None
       THEN /\ pc' = "failed"
            /\ failure' = "unsupported mask name"
            /\ UNCHANGED <<i, events, stdout, files>>
       ELSE /\ events' = events \o << <<MaskGenerator(args.mask_name), i>> >>
                                \o BatchSteps(inpainter.cls, i)
            /\ stdout' = Append(stdout, <<"acc", i>>)
            /\ IF args.plot
               THEN /\ files' = files \cup PlotFiles(inpainter.cls, i)
                    /\ pc' = "after_loop"
                    /\ UNCHANGED i
               ELSE /\ i' = i + 1
                    /\ UNCHANGED <<files, pc>>
            /\ UNCHANGED failure
    /\ UNCHANGED <<args, numBatches, filt, inpainter>>
    /\ UNCHANGED inpaintVars

\* line 151: the loader is exhausted
LoopExit ==
    /\ pc = "loop"
    /\ i = numBatches
    /\ pc' = "after_loop"
    /\ UNCHANGED <<args, numBatches, filt, inpainter, i, events, stdout, files, failure>>
    /\ UNCHANGED inpaintVars

\* line 187
PrintDone ==
    /\ pc = "after_loop"
    /\ stdout' = Append(stdout, "done")
    /\ pc' = "done"
    /\ UNCHANGED <<args, numBatches, filt, inpainter, i, events, files, failure>>
    /\ UNCHANGED inpaintVars

DriverNext ==
    \/ BuildFilter
    \/ SelectInpainter
    \/ ProcessBatch
    \/ LoopExit
    \/ PrintDone

SpecDriver == DriverInit /\ [][DriverNext]_vars


(***************************************************************************)
(* The mixture-of-blocks geometry (datasets.MixtureOfBlocks).  Images are  *)
(* im_size x im_size grids; a block is block_width x block_width; the      *)
(* filter slides by block_width // 2, and its response, with the border    *)
(* windows cut off, is the grid of labels (the "4x4" of line 48).  The     *)
(* grids are the dataset's scaled down by four: blocks of 2 pixels in      *)
(* images of 7, for blocks of 8 in images of 28.                           *)
(***************************************************************************)
block_width == 2
num_labels  == 16
im_size     == 7
batch_size  == 2

Labels == 0..(num_labels - 1)
Rows   == 0..(im_size - 1)
Cells  == Rows \X Rows
Batch  == 1..batch_size

\* int(num_labels ** 0.5)
GridSide == CHOOSE g \in 0..num_labels : g * g <= num_labels /\ (g + 1) * (g + 1) > num_labels

\* MixtureOfBlocks._label_to_patch_pixels(label, block_width, stride): the
\* patch of the label at row label // side, column label % side of the label
\* grid, one stride in from the image border.
label_to_patch_pixels(label, width, stride) ==
    [ row_start |-> stride * ((label \div GridSide) + 1),
      row_end   |-> stride * ((label \div GridSide) + 1) + width,
      col_start |-> stride * ((label % GridSide) + 1),
      col_end   |-> stride * ((label % GridSide) + 1) + width ]

\* MixtureOfBlocks.generate_image(beta, label): the block of the label at
\* intensity beta on a dark ground.
generate_image(beta, label) ==
    LET p == label_to_patch_pixels(label, block_width, block_width \div 2)
    IN  [ c \in Cells |->
            IF /\ p.row_start <= c[1] /\ c[1] < p.row_end
               /\ p.col_start <= c[2] /\ c[2] < p.col_end
            THEN beta ELSE 0 ]

(***************************************************************************)
(* Mask generators                                                         *)
(***************************************************************************)
\* np.roll(a, shift, axis): cyclic shift of the grid along one axis
np_roll(a, shift, axis) ==
    [ c \in Cells |->
        IF axis = 1 THEN a[<<c[1], (c[2] - shift) % im_size>>]
                    ELSE a[<<(c[1] - shift) % im_size, c[2]>>] ]

\* the same offset without the halving
HalfBlockOffsetFullWidth(label) ==
    (IF label % GridSide < 2 THEN -1 ELSE 1) * block_width

\* line 79: the label-dependent offset; // is the floor division
HalfBlockOffset(label) ==
    ((IF label % GridSide < 2 THEN -1 ELSE 1) * block_width) \div 2

\* lines 72-83, for a given label (the driver always passes one, line 157)
random_half_block_mask(label) ==
    LET p == label_to_patch_pixels(label, block_width, block_width \div 2)
        block == [ c \in Cells |->
                     IF /\ p.row_start <= c[1] /\ c[1] < p.row_end
                        /\ p.col_start <= c[2] /\ c[2] < p.col_end
                     THEN 1 ELSE 0 ]
        offset == HalfBlockOffset(label)
        offset_dim == 1
        fwd == np_roll(block, offset, offset_dim)
        bwd == np_roll(block, 0 - offset, offset_dim)
    IN  [ c \in Cells |-> block[c] * fwd[c] + (1 - block[c]) * bwd[c] ]

\* lines 86-89
random_half_block_mask_batch(labels) ==
    [ k \in Batch |-> random_half_block_mask(labels[k]) ]

\* lines 60-61: np.random.binomial yields any grid of zeros and ones; the
\* draws explored are the empty mask, the full mask and the left four columns.
RandomMaskDraws ==
    { [ c \in Cells |-> 0 ],
      [ c \in Cells |-> 1 ],
      [ c \in Cells |-> IF c[2] < 4 THEN 1 ELSE 0 ] }

(***************************************************************************)
(* OracleInpainter on integer grids.  A pixel value v stands for v/PixOne, *)
(* a mask cell is 0 or 1.  A filter response is counted in units of        *)
(* 1/block_width^2 of a pixel unit, so that the mean of a window is the    *)
(* sum of its cells.  exp is modelled by the powers of two: what the       *)
(* top-two step reads of it is that it is positive, strictly increasing    *)
(* and turns differences of logits into ratios.  A probability is a        *)
(* numerator over a denominator shared by the row; a row whose denominator *)
(* is 0 is the row of NaN that 0/0 gives.                                  *)
(***************************************************************************)
PixOne   == 2
NoiseMax == 1

stride == block_width \div 2                         \* line 21
OutSide == ((im_size - block_width) \div stride) + 1 \* windows per axis
CropSide == OutSide - 2                              \* line 48
NumOut == CropSide * CropSide

\* The tuple <<f[1], ..., f[n]>>: a tensor, computed once and then read
RECURSIVE AsTuple(_, _)
AsTuple(f, n) == IF n = 0 THEN << >> ELSE Append(AsTuple(f, n - 1), f[n])

Window(wr, wc) ==
    { c \in Cells : /\ wr * stride <= c[1] /\ c[1] < wr * stride + block_width
                    /\ wc * stride <= c[2] /\ c[2] < wc * stride + block_width }

RECURSIVE SumCells(_, _)
SumCells(a, S) ==
    IF S = {} THEN 0
    ELSE LET c == CHOOSE c \in S : TRUE IN a[c] + SumCells(a, S \ {c})

\* torch.median of the window: the lower of the two middle values
LowerMedian(a, S) ==
    LET m == (Cardinality(S) + 1) \div 2
    IN  CHOOSE v \in { a[c] : c \in S } :
            /\ Cardinality({ c \in S : a[c] < v }) < m
            /\ Cardinality({ c \in S : a[c] <= v }) >= m

\* torch.nn.AvgPool2d(kernel_size, stride) at window (wr, wc)
AvgPool(a, wr, wc) == SumCells(a, Window(wr, wc))

\* MedianPool2d(kernel_size, stride) at window (wr, wc)
MedianPool(a, wr, wc) == Cardinality(Window(wr, wc)) * LowerMedian(a, Window(wr, wc))

\* line 46 and line 48: self.filt applied, border windows cut, row-major
CroppedResponse(fclass, a) ==
    AsTuple([ n \in 1..NumOut |->
                LET wr == 1 + ((n - 1) \div CropSide)
                    wc == 1 + ((n - 1) % CropSide)
                IN  IF fclass = MedianPool2d THEN MedianPool(a, wr, wc)
                                             ELSE AvgPool(a, wr, wc) ],
            NumOut)

\* line 45: the occluded cells replaced by noise
MaskedInput(img, mask, nz) ==
    [ c \in Cells |-> (1 - mask[c]) * img[c] + mask[c] * nz[c] ]

RECURSIVE Pow2(_)
Pow2(n) == IF n <= 0 THEN 1 ELSE 2 * Pow2(n - 1)

RECURSIVE SeqSum(_)
SeqSum(q) == IF q = << >> THEN 0 ELSE Head(q) + SeqSum(Tail(q))

SeqMin(q) == CHOOSE v \in { q[n] : n \in DOMAIN q } : \A n \in DOMAIN q : v <= q[n]
SeqMax(q) == CHOOSE v \in { q[n] : n \in DOMAIN q } : \A n \in DOMAIN q : v >= q[n]

\* line 49: F.softmax over the labels of one image
ExpWeights(logits, lo) ==
    AsTuple([ n \in DOMAIN logits |-> Pow2(logits[n] - lo) ], Len(logits))
OverSum(w) == [ num |-> w, den |-> SeqSum(w) ]
softmax(logits) == OverSum(ExpWeights(logits, SeqMin(logits)))

RemoveAt(q, n) == SubSeq(q, 1, n - 1) \o SubSeq(q, n + 1, Len(q))

\* line 51: torch.sort(..., descending=True)[0]
RECURSIVE SortDescending(_)
MaxFirst(q, m) ==
    << m >> \o SortDescending(RemoveAt(q, CHOOSE n \in DOMAIN q : q[n] = m))
SortDescending(q) == IF q = << >> THEN << >> ELSE MaxFirst(q, SeqMax(q))

\* line 52: label_probs * (label_probs > threshold), and line 53
KeepAbove(num, threshold) ==
    OverSum(AsTuple([ n \in DOMAIN num |-> IF num[n] > threshold THEN num[n] ELSE 0 ],
                    Len(num)))

\* lines 51-53: keep what lies above the third value of the row, renormalize
TopTwo(p) == KeepAbove(p.num, SortDescending(p.num)[3])

\* lines 44-57
infer_label_probs(fclass, imgs, masks, nz) ==
    AsTuple([ k \in Batch |->
                TopTwo(softmax(CroppedResponse(fclass,
                                   MaskedInput(imgs[k], masks[k], nz[k])))) ],
            batch_size)

IsNaN(p) == p.den = 0

\* line 33: the labels torch.multinomial can draw from one row
Support(p) == { n - 1 : n \in { m \in DOMAIN p.num : p.num[m] > 0 } }

Clamp(v, lo, hi) == IF v < lo THEN lo ELSE IF v > hi THEN hi ELSE v

MaxOver(img, S) == CHOOSE v \in { img[c] : c \in S } : \A c \in S : img[c] <= v

\* line 35: x.max(-1)[0].max(-1)[0].clamp(0., 1.)
BetaOf(img, mask) == Clamp(MaxOver(img, Cells), 0, PixOne)

\* line 26: x * mask + backgnd * (1. - mask)
Compose(img, mask, bg) ==
    [ c \in Cells |-> img[c] * mask[c] + bg[c] * (1 - mask[c]) ]

\* line 45: the draws of noise_level * torch.randn explored: the level
\* fields, and a field with one peak, at the top left cell of the first patch
NoiseDraws ==
    { [ k \in Batch |-> [ c \in Cells |-> v ] ] : v \in (0 - NoiseMax)..NoiseMax }
    \cup { [ k \in Batch |-> [ c \in Cells |->
               IF c = <<stride, stride>> THEN NoiseMax ELSE 0 ] ] }

\* the intensities of the loader's images
DatasetBetas == { 1, PixOne }

\* the label batches of the loader explored: any label first, the first or
\* the last label of the grid after it
LoaderLabels ==
    { q \in [ Batch -> Labels ] : \A k \in Batch : k > 1 => q[k] \in { 0, num_labels - 1 } }

\* the OracleInpainter is built, a batch has come from the loader
InpaintInit ==
    /\ self_filt \in { OracleInpainterInit(m).filt : m \in { s \in ModeInputs : ModeAccepted(s) } }
    /\ y \in LoaderLabels
    /\ \E b \in DatasetBetas : x = [ k \in Batch |-> generate_image(b, y[k]) ]
    /\ ipc = "mask"
    /\ mb = << >>
    /\ noise = << >> /\ label_probs = << >> /\ label_samps = << >>
    /\ betas = << >> /\ backgnd = << >> /\ z = << >>
    /\ args = None /\ numBatches = 0 /\ pc = "idle" /\ filt = None /\ inpainter = None
    /\ i = 0 /\ events = << >> /\ stdout = << >> /\ files = {} /\ failure = None

\* lines 64-65
RandomMaskBatch ==
    /\ ipc = "mask"
    /\ mb' \in [ Batch -> RandomMaskDraws ]
    /\ ipc' = "masked_random"
    /\ UNCHANGED <<self_filt, x, y, noise, label_probs, label_samps, betas, backgnd, z>>
    /\ UNCHANGED driverVars

\* lines 86-89, with the labels of the batch as at line 157
RandomHalfBlockMaskBatch ==
    /\ ipc = "mask"
    /\ mb' = random_half_block_mask_batch(y)
    /\ ipc' = "masked_halfblock"
    /\ UNCHANGED <<self_filt, x, y, noise, label_probs, label_samps, betas, backgnd, z>>
    /\ UNCHANGED driverVars

\* lines 33-42 and line 26, once the label probabilities are known.
\* torch.multinomial refuses a row of NaN.
SampleAndCompose(nz, probs) ==
    /\ noise' = nz
    /\ label_probs' = probs
    /\ IF \E k \in Batch : IsNaN(probs[k])
       THEN /\ ipc' = "error"
            /\ UNCHANGED <<label_samps, betas, backgnd, z>>
       ELSE \E samp \in [ Batch -> Labels ] :
            /\ \A k \in Batch : samp[k] \in Support(probs[k])
            /\ label_samps' = samp
            /\ betas' = AsTuple([ k \in Batch |-> BetaOf(x[k], mb[k]) ], batch_size)
            /\ backgnd' = [ k \in Batch |-> generate_image(betas'[k], samp[k]) ]
            /\ z' = [ k \in Batch |-> Compose(x[k], mb[k], backgnd'[k]) ]
            /\ ipc' = "done"

\* lines 24-42: impute_missing_imgs with the generate_background and the
\* infer_label_probs it calls
ImputeMissingImgs ==
    /\ ipc \in { "masked_random", "masked_halfblock" }
    /\ \E nz \in NoiseDraws : SampleAndCompose(nz, infer_label_probs(self_filt, x, mb, nz))
    /\ UNCHANGED <<self_filt, x, y, mb>>
    /\ UNCHANGED driverVars

InpaintNext ==
    \/ RandomMaskBatch
    \/ RandomHalfBlockMaskBatch
    \/ ImputeMissingImgs

SpecInpaint == InpaintInit /\ [][InpaintNext]_vars

(***************************************************************************)
(* Claims settled under SpecDriver                                         *)
(***************************************************************************)
\* The --mode strings of ModeInputs a reader of the constructor's message
\* would call supported, written out one by one.
AcceptedSpellings ==
    { s_median, s_avg, s_average,
      <<"M","e","d","i","a","n">>, <<"M","E","D","I","A","N">>,
      <<"A","V","G">>, <<"A","v","e","r","a","g","e">> }
MedianSpellings ==
    { s_median, <<"M","e","d","i","a","n">>, <<"M","E","D","I","A","N">> }
DocumentedGenModels == { "OracleInpainter", "MeanInpainter", "LocalMeanInpainter" }
DocumentedMaskNames == { "halfblock", "random" }
PastSelection == pc \notin { "build_filter", "select_inpainter" }

\* C3: constructing the OracleInpainter with a mode outside 'median', 'avg',
\* 'average' (any letter case) fails at the assertion, with no filter
\* installed in the object and no batch step executed; with an accepted mode
\* the object is built, with the median filter for 'median' and the average
\* filter otherwise.
C3_ModePrecondition ==
    (PastSelection /\ args.gen_model_name = "OracleInpainter") =>
        IF args.mode \in AcceptedSpellings
        THEN /\ failure # "unsupported mode"
             /\ inpainter.cls = "OracleInpainter"
             /\ inpainter.filt = (IF args.mode \in MedianSpellings
                                  THEN MedianPool2d ELSE AvgPool2d)
        ELSE /\ pc = "failed"
             /\ failure = "unsupported mode"
             /\ inpainter.cls = None
             /\ inpainter.filt = None
             /\ events = << >>
             /\ files = {}
             /\ stdout = << >>

C3_Witness ==
    /\ args.gen_model_name = "OracleInpainter"
    /\ args.mode = <<"u","n","s","u","p","p","o","r","t","e","d">>
    /\ pc = "failed"
    /\ failure = "unsupported mode"

\* C4: the driver accepts exactly the documented generator-model names: each
\* of them selects its inpainter and the run goes on to the batch loop, every
\* other name ends the run at the assertion.
C4_DocumentedGenModels ==
    PastSelection =>
        /\ ( /\ args.gen_model_name \in DocumentedGenModels
             /\ (args.gen_model_name = "OracleInpainter" => args.mode \in AcceptedSpellings) )
           => ( /\ inpainter.cls = args.gen_model_name
                /\ failure # "unsupported gen model name" )
        /\ args.gen_model_name \notin DocumentedGenModels
           => ( pc = "failed" /\ failure = "unsupported gen model name" )

\* C5: a run whose mask name is neither 'random' nor 'halfblock' never
\* reaches 'done', whatever the number of batches the loader yields, none
\* included.
C5_InvalidMaskNeverDone ==
    args.mask_name \notin DocumentedMaskNames => pc # "done"

\* The part of C5 the script keeps: with at least one batch such a run never
\* reaches 'done' and ends at an assertion before any batch is masked,
\* imputed, scored or saved.  With an empty loader the mask name is never
\* looked at.
C5_InvalidMaskFailsOnFirstBatch ==
    args.mask_name \notin DocumentedMaskNames =>
        IF numBatches >= 1
        THEN /\ pc \notin { "after_loop", "done" }
             /\ events = << >>
             /\ stdout = << >>
             /\ files = {}
             /\ i = 0
             /\ (~ ENABLED DriverNext) => pc = "failed"
        ELSE failure # "unsupported mask name"

ValidSelectors ==
    /\ args.gen_model_name \in DocumentedGenModels
    /\ args.mask_name \in DocumentedMaskNames
    /\ args.mode \in AcceptedSpellings

\* The batches of a finished run, as C9 has them: the first one alone in plot
\* mode, all of them otherwise.
ExpectedBatches == IF args.plot THEN (IF numBatches >= 1 THEN 1 ELSE 0) ELSE numBatches

\* C9: with valid selectors the run never fails and ends with 'done'; the
\* batches are processed one after another, in order: the first one alone in
\* plot mode, every batch once otherwise, and without plot mode no file is
\* written.
C9_ValidRunReachesDone ==
    ValidSelectors =>
        /\ pc # "failed"
        /\ (~ ENABLED DriverNext) => (pc = "done" /\ stdout[Len(stdout)] = "done")
        /\ pc = "done" =>
              /\ Len(stdout) = ExpectedBatches + 1
              /\ \A k \in 1..ExpectedBatches : stdout[k] = <<"acc", k - 1>>
              /\ \A k \in 1..(Len(events) - 1) : events[k][2] <= events[k + 1][2]
        /\ ~ args.plot => files = {}

\* C10: for every mode the constructor accepts, the filter the driver builds
\* for its accuracy evaluation is the variant installed in the
\* OracleInpainter built from the same mode.
C10_SameFilterVariant ==
    (PastSelection /\ inpainter.cls = "OracleInpainter") => filt = inpainter.filt

(***************************************************************************)
(* Claims settled under SpecInpaint                                        *)
(***************************************************************************)
Computed == ipc \in { "done", "error" }

\* C1: impute_missing_imgs(x, mask) is x at every cell where mask = 0 and the
\* synthesized background at every cell where mask = 1.
C1_CompositeLaw ==
    ipc = "done" =>
        \A k \in Batch : \A c \in Cells :
            z[k][c] = (IF mb[k][c] = 0 THEN x[k][c] ELSE backgnd[k][c])

\* C2: infer_label_probs returns for each image a vector of non-negative
\* entries that sum to 1, at most 2 of them nonzero, ties among the filter
\* responses included.
C2_Distribution ==
    Computed =>
        \A k \in Batch :
            /\ label_probs[k].den > 0
            /\ \A n \in DOMAIN label_probs[k].num : label_probs[k].num[n] >= 0
            /\ SeqSum(label_probs[k].num) = label_probs[k].den
            /\ Cardinality({ n \in DOMAIN label_probs[k].num : label_probs[k].num[n] > 0 }) <= 2

\* the softmax row the top-two step of image k started from
SoftmaxRow(k) == softmax(CroppedResponse(self_filt, MaskedInput(x[k], mb[k], noise[k])))

ExactlyTopTwo(soft, p) ==
    /\ Cardinality({ n \in DOMAIN p.num : p.num[n] > 0 }) = 2
    /\ \A n, m \in DOMAIN p.num :
          (p.num[n] > 0 /\ p.num[m] = 0) => soft.num[n] >= soft.num[m]
    /\ \A n, m \in DOMAIN p.num :
          (p.num[n] > 0 /\ p.num[m] > 0) => p.num[n] * soft.num[m] = p.num[m] * soft.num[n]

\* C7: the top-two step leaves exactly two nonzero entries per image, those
\* at the two largest softmax values, in the ratio they had before.
C7_ExactlyTopTwo ==
    Computed => \A k \in Batch : ExactlyTopTwo(SoftmaxRow(k), label_probs[k])

BetaOfVisible(img, mask) ==
    Clamp(MaxOver(img, { c \in Cells : mask[c] = 0 }), 0, PixOne)

\* C8: the beta of an image is the maximum of its visible pixels (mask = 0),
\* clamped to [0,1], so that the occluded pixels have no part in it.
C8_BetaFromVisible ==
    ipc = "done" =>
        \A k \in Batch :
            (\E c \in Cells : mb[k][c] = 0) => betas[k] = BetaOfVisible(x[k], mb[k])

Rect(row_start, row_end, col_start, col_end) ==
    { c \in Cells : /\ row_start <= c[1] /\ c[1] < row_end
                    /\ col_start <= c[2] /\ c[2] < col_end }

HalfWidthShift(label) ==
    IF label % GridSide < 2 THEN 0 - (block_width \div 2) ELSE block_width \div 2

HalfBlockMaskOk(mask, p, shift) ==
    /\ \A c \in Cells : mask[c] \in { 0, 1 }
    /\ 0 <= p.col_start - shift /\ p.col_end + shift <= im_size
    /\ 0 <= p.col_start + shift /\ p.col_end - shift <= im_size
    /\ Cardinality(Rect(p.row_start, p.row_end, p.col_start + shift, p.col_end + shift))
          = block_width * block_width
    /\ Cardinality(Rect(p.row_start, p.row_end, p.col_start - shift, p.col_end - shift))
          = block_width * block_width
    /\ { c \in Cells : mask[c] = 1 }
          \subseteq ( Rect(p.row_start, p.row_end, p.col_start + shift, p.col_end + shift)
                      \cup Rect(p.row_start, p.row_end, p.col_start - shift, p.col_end - shift) )
    /\ \E c \in Cells : mask[c] = 1
    /\ \E c \in Cells : mask[c] = 0

\* C6: for every label of the square label grid, random_half_block_mask
\* returns a grid of zeros and ones whose ones lie in the two rectangles got
\* by shifting the label's patch sideways by the label's offset and by its
\* negation, each of the area of one patch, and the mask is neither all zero
\* nor all one.
C6_HalfBlockMask ==
    ipc = "masked_halfblock" =>
        \A k \in Batch :
            HalfBlockMaskOk(mb[k],
                            label_to_patch_pixels(y[k], block_width, block_width \div 2),
                            HalfWidthShift(y[k]))

C6_Witness ==
    /\ ipc = "masked_halfblock"
    /\ y[1] = 6
    /\ mb[1][<<2, 4>>] = 1
    /\ mb[1][<<2, 2>>] = 1
    /\ mb[1][<<2, 3>>] = 0

====
